---- MODULE Spec2Model ----
(***************************************************************************)
(* Perk resource controller (src/src/controllers/perkController.js).       *)
(*                                                                         *)
(* A request body, a query string, a validated value and a stored document *)
(* are JavaScript objects: here they are functions whose DOMAIN is the set *)
(* of keys that are present, so "absent" is "not in the DOMAIN".           *)
(*                                                                         *)
(* The Perk model (src/models/Perk.js, a Mongoose model) is not part of    *)
(* the sources at hand; the Db* operators model it from the specification: *)
(* ids and createdAt are assigned by the store, single-document operations *)
(* are atomic, and a unique index on merchant raises error code 11000.     *)
(***************************************************************************)
EXTENDS Integers, Sequences, FiniteSets, TLC

VARIABLES perks, nextId, req, resp, slots

vars == <<perks, nextId, req, resp, slots>>

\* Number of documents the store ever creates (ids 1..MaxPerks, never reused).
MaxPerks == 2

\* Number of requests in flight at once in the interleaved specification.
MaxInFlight == 2

\* err.code of a MongoDB duplicate-key error.
DuplicateKey == 11000

\* err.code of any other persistence failure (no such code: undefined).
NoCode == 0

-----------------------------------------------------------------------------
(* Objects *)

Empty == [k \in {} |-> 0]

Has(o, k) == k \in DOMAIN o

\* {...a, ...b} with a's keys winning.
Merge(a, b) == [k \in DOMAIN a \cup DOMAIN b |-> IF k \in DOMAIN a THEN a[k] ELSE b[k]]

Opt(k, V) == {Empty} \cup {k :> v : v \in V}

Categories == {"food", "tech", "travel", "fitness", "other"}

KnownKeys == {"title", "description", "category", "discountPercent", "merchant"}

\* Request inputs: each key absent or one of a few values, valid and invalid.
TitleVals == {"a", "tea", "gym"}
DescriptionVals == {""}
CategoryVals == {"food", "bad"}
DiscountVals == {-1, 100, 101}
MerchantVals == {"acme"}
UnknownVals == {"x"}

Bodies ==
  { Merge(t, Merge(d, Merge(c, Merge(p, Merge(m, u))))) :
      t \in Opt("title", TitleVals),
      d \in Opt("description", DescriptionVals),
      c \in Opt("category", CategoryVals),
      p \in Opt("discountPercent", DiscountVals),
      m \in Opt("merchant", MerchantVals),
      u \in Opt("bogus", UnknownVals) }

Queries == Opt("title", {"", "tea", "gym"})

Ids == 1..MaxPerks

-----------------------------------------------------------------------------
(* Validators (Joi) *)

\* Per-key rules shared by the two schemas (lines 6-10 and 15-19).
TitleOk(b) == Has(b, "title") => Len(b.title) >= 2
DescriptionOk(b) == Has(b, "description") => (b.description = "" \/ Len(b.description) >= 1)
CategoryOk(b) == Has(b, "category") => b.category \in Categories
DiscountOk(b) == Has(b, "discountPercent") => (b.discountPercent >= 0 /\ b.discountPercent <= 100)
MerchantOk(b) == Has(b, "merchant") => (b.merchant = "" \/ Len(b.merchant) >= 1)
KeysOk(b) == DOMAIN b \subseteq KnownKeys

\* Mutant: title not required.
perkSchema_TitleOptional(b) ==
  LET ok == /\ KeysOk(b)
            /\ TitleOk(b)
            /\ DescriptionOk(b) /\ CategoryOk(b) /\ DiscountOk(b) /\ MerchantOk(b)
      defaults == Merge(IF Has(b, "category") THEN Empty ELSE "category" :> "other",
                        IF Has(b, "discountPercent") THEN Empty ELSE "discountPercent" :> 0)
  IN [error |-> ~ok, value |-> Merge(b, defaults)]

\* perkSchema.validate(body): {value, error}; value carries the defaults.
perkSchema(b) ==
  LET ok == /\ KeysOk(b)
            /\ Has(b, "title") /\ TitleOk(b)
            /\ DescriptionOk(b) /\ CategoryOk(b) /\ DiscountOk(b) /\ MerchantOk(b)
      defaults == Merge(IF Has(b, "category") THEN Empty ELSE "category" :> "other",
                        IF Has(b, "discountPercent") THEN Empty ELSE "discountPercent" :> 0)
  IN [error |-> ~ok, value |-> Merge(b, defaults)]

\* Mutant: discountPercent without its range.
perkUpdateSchema_NoRange(b) ==
  LET ok == /\ KeysOk(b)
            /\ TitleOk(b) /\ DescriptionOk(b) /\ CategoryOk(b) /\ MerchantOk(b)
            /\ Cardinality(DOMAIN b) >= 1
  IN [error |-> ~ok, value |-> b]

\* perkUpdateSchema.validate(body): every key optional, at least one key.
perkUpdateSchema(b) ==
  LET ok == /\ KeysOk(b)
            /\ TitleOk(b) /\ DescriptionOk(b) /\ CategoryOk(b) /\ DiscountOk(b) /\ MerchantOk(b)
            /\ Cardinality(DOMAIN b) >= 1
  IN [error |-> ~ok, value |-> b]

-----------------------------------------------------------------------------
(* Persistence collaborator (Perk model) *)

\* A db is [nextId: ids handed out so far, perks: set of documents].
\* A call's outcome is [code, db, doc, docs, threw]; doc = Null is null.

Null == Empty

FindById(ps, id) == IF \E d \in ps : d._id = id THEN CHOOSE d \in ps : d._id = id ELSE Null

\* Key of the unique index: the merchant, a missing one indexed as null.
IndexKey(d) == IF Has(d, "merchant") THEN <<d.merchant>> ELSE <<>>

Threw(db, code) == [code |-> code, db |-> db, doc |-> Null, docs |-> <<>>, threw |-> TRUE]

Returned(db, doc, docs) == [code |-> NoCode, db |-> db, doc |-> doc, docs |-> docs, threw |-> FALSE]

RECURSIVE SortDesc(_)
\* .sort({createdAt: -1})
SortDesc(ds) ==
  IF ds = {} THEN <<>>
  ELSE LET newest == CHOOSE d \in ds : \A e \in ds : e.createdAt <= d.createdAt
       IN <<newest>> \o SortDesc(ds \ {newest})

\* Perk.find(filter).sort({createdAt: -1}); filter is {} or {title: t}.
DbFind(db, filter, fault) ==
  IF fault THEN Threw(db, NoCode)
  ELSE Returned(db, Null,
         SortDesc({d \in db.perks : Has(filter, "title") => d.title = filter.title}))

\* Perk.findById(id)
DbFindById(db, id, fault) ==
  IF fault THEN Threw(db, NoCode) ELSE Returned(db, FindById(db.perks, id), <<>>)

\* Perk.create(value): new _id and createdAt, unique index enforced.
DbCreate(db, value, fault) ==
  LET doc == Merge(value, [_id |-> db.nextId + 1, createdAt |-> db.nextId + 1])
  IN IF fault THEN Threw(db, NoCode)
     ELSE IF \E d \in db.perks : IndexKey(d) = IndexKey(doc) THEN Threw(db, DuplicateKey)
     ELSE Returned([nextId |-> db.nextId + 1, perks |-> db.perks \cup {doc}], doc, <<>>)

\* Perk.findByIdAndUpdate(id, {$set: value}, {new: true})
DbFindByIdAndUpdate(db, id, value, fault) ==
  LET old == FindById(db.perks, id)
      new == Merge(value, old)
  IN IF fault THEN Threw(db, NoCode)
     ELSE IF old = Null THEN Returned(db, Null, <<>>)
     ELSE IF \E d \in db.perks \ {old} : IndexKey(d) = IndexKey(new) THEN Threw(db, DuplicateKey)
     ELSE Returned([db EXCEPT !.perks = (db.perks \ {old}) \cup {new}], new, <<>>)

\* Perk.findByIdAndDelete(id)
DbFindByIdAndDelete(db, id, fault) ==
  LET old == FindById(db.perks, id)
  IN IF fault THEN Threw(db, NoCode)
     ELSE IF old = Null THEN Returned(db, Null, <<>>)
     ELSE Returned([db EXCEPT !.perks = db.perks \ {old}], old, <<>>)

-----------------------------------------------------------------------------
(* Responses *)

\* A response is [calls, json, nexts, status]: calls counts the persistence
\* calls made, nexts lists the err.code of every next(err), and status 0
\* says that the handler itself sent nothing.
NoResponse == [calls |-> 0, json |-> Empty, nexts |-> <<>>, status |-> 0]

\* res.status(status).json(json)
Json(status, json) == [calls |-> 0, json |-> json, nexts |-> <<>>, status |-> status]

\* next(err)
Forward(code) == [calls |-> 0, json |-> Empty, nexts |-> <<code>>, status |-> 0]

Called(rs) == [rs EXCEPT !.calls = 1]

ValidationMessage == [message |-> "validation"]
NotFoundMessage == [message |-> "Perk not found"]
DuplicateMessage == [message |-> "Duplicate perk for this merchant"]
TitleRequiredMessage == [message |-> "Title query parameter is required"]

\* if (title): undefined and '' are falsy.
Truthy(q, k) == Has(q, k) /\ q[k] # ""

-----------------------------------------------------------------------------
(* Handlers, each in two halves around its one await:                      *)
(*   xCall(input)    what the handler does before suspending: either a     *)
(*                   response at once, or the persistence call it issues;  *)
(*   xResume(out)    the response it maps the call's outcome to.           *)

Respond(rs) == [call |-> Empty, resp |-> rs, respond |-> TRUE]

Await(call) == [call |-> call, resp |-> NoResponse, respond |-> FALSE]

\* Mutant: the title is not passed to find.
filterPerksCall_NoFilter(query) ==
  IF Truthy(query, "title")
    THEN Await([filter |-> Empty, op |-> "find"])
    ELSE Respond(Json(400, TitleRequiredMessage))

filterPerksCall(query) ==
  IF Truthy(query, "title")
    THEN Await([filter |-> [title |-> query.title], op |-> "find"])
    ELSE Respond(Json(400, TitleRequiredMessage))

filterPerksResume(out) ==
  IF out.threw THEN Forward(out.code) ELSE Json(200, [perks |-> out.docs])

getPerkCall(id) == Await([id |-> id, op |-> "findById"])

\* Mutant: a missing document is not told from a found one.
getPerkResume_NoNullCheck(out) ==
  IF out.threw THEN Forward(out.code) ELSE Json(200, [perk |-> out.doc])

getPerkResume(out) ==
  IF out.threw THEN Forward(out.code)
  ELSE IF out.doc = Null THEN Json(404, NotFoundMessage)
  ELSE Json(200, [perk |-> out.doc])

getAllPerksCall == Await([filter |-> Empty, op |-> "find"])

getAllPerksResume(out) ==
  IF out.threw THEN Forward(out.code) ELSE Json(200, [perks |-> out.docs])

\* Mutant: the raw body is stored instead of the validated value.
createPerkCall_RawBody(body) ==
  LET v == perkSchema(body)
  IN IF v.error THEN Respond(Json(400, ValidationMessage))
     ELSE Await([op |-> "create", value |-> body])

createPerkCall(body) ==
  LET v == perkSchema(body)
  IN IF v.error THEN Respond(Json(400, ValidationMessage))
     ELSE Await([op |-> "create", value |-> v.value])

\* Mutant: no special case for the duplicate key.
createPerkResume_NoDuplicateCase(out) ==
  IF out.threw THEN Forward(out.code) ELSE Json(201, [perk |-> out.doc])

createPerkResume(out) ==
  IF out.threw
    THEN IF out.code = DuplicateKey THEN Json(409, DuplicateMessage) ELSE Forward(out.code)
    ELSE Json(201, [perk |-> out.doc])

\* Mutant: the update validates with the create schema.
updatePerkCall_CreateSchema(id, body) ==
  LET v == perkSchema(body)
  IN IF v.error THEN Respond(Json(400, ValidationMessage))
     ELSE Await([id |-> id, op |-> "findByIdAndUpdate", value |-> v.value])

updatePerkCall(id, body) ==
  LET v == perkUpdateSchema(body)
  IN IF v.error THEN Respond(Json(400, ValidationMessage))
     ELSE Await([id |-> id, op |-> "findByIdAndUpdate", value |-> v.value])

\* Mutant: a missing document is not told from a found one.
updatePerkResume_NoNullCheck(out) ==
  IF out.threw THEN Forward(out.code) ELSE Json(200, [perk |-> out.doc])

\* Mutant: the duplicate key is answered 409, as createPerk does.
updatePerkResume_Duplicate409(out) ==
  IF out.threw
    THEN IF out.code = DuplicateKey THEN Json(409, DuplicateMessage) ELSE Forward(out.code)
  ELSE IF out.doc = Null THEN Json(404, NotFoundMessage)
  ELSE Json(200, [perk |-> out.doc])

updatePerkResume(out) ==
  IF out.threw THEN Forward(out.code)
  ELSE IF out.doc = Null THEN Json(404, NotFoundMessage)
  ELSE Json(200, [perk |-> out.doc])

deletePerkCall(id) == Await([id |-> id, op |-> "findByIdAndDelete"])

\* Mutant: a missing document is not told from a deleted one.
deletePerkResume_NoNullCheck(out) ==
  IF out.threw THEN Forward(out.code) ELSE Json(200, [ok |-> TRUE])

deletePerkResume(out) ==
  IF out.threw THEN Forward(out.code)
  ELSE IF out.doc = Null THEN Json(404, NotFoundMessage)
  ELSE Json(200, [ok |-> TRUE])

\* A request: [body, fault, id, kind, query]. fault is the environment's
\* part of it: whether the persistence call, if one is made, fails with an
\* error other than a duplicate key (connectivity and the like).
Request(kind, id, body, query, fault) ==
  [body |-> body, fault |-> fault, id |-> id, kind |-> kind, query |-> query]

NoRequest == Request("none", 0, Empty, Empty, FALSE)

\* Router: the handler's first half.
Call(r) ==
  CASE r.kind = "filter" -> filterPerksCall(r.query)
    [] r.kind = "get"    -> getPerkCall(r.id)
    [] r.kind = "getAll" -> getAllPerksCall
    [] r.kind = "create" -> createPerkCall(r.body)
    [] r.kind = "update" -> updatePerkCall(r.id, r.body)
    [] r.kind = "delete" -> deletePerkCall(r.id)

\* Router: the handler's second half.
Resume(r, out) ==
  CASE r.kind = "filter" -> Called(filterPerksResume(out))
    [] r.kind = "get"    -> Called(getPerkResume(out))
    [] r.kind = "getAll" -> Called(getAllPerksResume(out))
    [] r.kind = "create" -> Called(createPerkResume(out))
    [] r.kind = "update" -> Called(updatePerkResume(out))
    [] r.kind = "delete" -> Called(deletePerkResume(out))

\* The store executing one call atomically.
Execute(db, call, fault) ==
  CASE call.op = "find"              -> DbFind(db, call.filter, fault)
    [] call.op = "findById"          -> DbFindById(db, call.id, fault)
    [] call.op = "create"            -> DbCreate(db, call.value, fault)
    [] call.op = "findByIdAndUpdate" -> DbFindByIdAndUpdate(db, call.id, call.value, fault)
    [] call.op = "findByIdAndDelete" -> DbFindByIdAndDelete(db, call.id, fault)

\* A whole handler, run without interleaving: [db, resp].
Handle(db, r) ==
  LET c == Call(r)
  IN IF c.respond THEN [db |-> db, resp |-> c.resp]
     ELSE LET out == Execute(db, c.call, r.fault)
          IN [db |-> out.db, resp |-> Resume(r, out)]

-----------------------------------------------------------------------------
(* Requests served one at a time *)

Db == [nextId |-> nextId, perks |-> perks]

Init ==
  /\ perks = {}
  /\ nextId = 0
  /\ req = NoRequest
  /\ resp = NoResponse
  /\ slots = <<>>

\* One request from arrival to response: the whole handler. A fault is an
\* outcome of the persistence call, so there is none where no call is made.
Idle == req = NoRequest

Serve(r) ==
  LET h == Handle(Db, r)
  IN /\ r.fault => h.resp.calls = 1
     /\ h.db.nextId <= MaxPerks
     /\ perks' = h.db.perks
     /\ nextId' = h.db.nextId
     /\ req' = r
     /\ resp' = h.resp
     /\ UNCHANGED slots

FilterPerks == Idle /\ \E q \in Queries, f \in BOOLEAN : Serve(Request("filter", 0, Empty, q, f))

GetPerk == Idle /\ \E id \in Ids, f \in BOOLEAN : Serve(Request("get", id, Empty, Empty, f))

GetAllPerks == Idle /\ \E f \in BOOLEAN : Serve(Request("getAll", 0, Empty, Empty, f))

CreatePerk == Idle /\ \E b \in Bodies, f \in BOOLEAN : Serve(Request("create", 0, b, Empty, f))

UpdatePerk == Idle /\ \E id \in Ids, b \in Bodies, f \in BOOLEAN : Serve(Request("update", id, b, Empty, f))

DeletePerk == Idle /\ \E id \in Ids, f \in BOOLEAN : Serve(Request("delete", id, Empty, Empty, f))

\* The response is out and the request-scoped objects are gone: the handlers
\* keep nothing between requests.
Finish ==
  /\ req # NoRequest
  /\ req' = NoRequest
  /\ resp' = NoResponse
  /\ UNCHANGED <<perks, nextId, slots>>

Next ==
  \/ FilterPerks
  \/ GetPerk
  \/ GetAllPerks
  \/ CreatePerk
  \/ UpdatePerk
  \/ DeletePerk
  \/ Finish

Spec == Init /\ [][Next]_vars

-----------------------------------------------------------------------------
(* Requests in flight together, interleaved at their awaits *)

\* The store these requests find: one perk, created by an earlier request.
SeedDb == DbCreate([nextId |-> 0, perks |-> {}], perkSchema([title |-> "tea"]).value, FALSE).db

SeedId == SeedDb.nextId

InFlightBodies ==
  { [title |-> "gym", merchant |-> "acme"],
    [title |-> "tea", merchant |-> "acme", discountPercent |-> 100],
    [discountPercent |-> 100],
    [merchant |-> "acme"],
    Empty }

InFlightRequests ==
  {Request("create", 0, b, Empty, f) : b \in InFlightBodies, f \in BOOLEAN}
    \cup {Request("update", SeedId, b, Empty, f) : b \in InFlightBodies, f \in BOOLEAN}
    \cup {Request(k, SeedId, Empty, Empty, f) : k \in {"delete", "get"}, f \in BOOLEAN}

Slots == 1..MaxInFlight

NoOutcome == [code |-> NoCode, db |-> Empty, doc |-> Null, docs |-> <<>>, threw |-> FALSE]

\* A handler invocation: [call, out, pc, r, resp], pc one of
\* "idle", "awaiting" (suspended at its await), "resolved", "done".
IdleSlot == [call |-> Empty, out |-> NoOutcome, pc |-> "idle", r |-> NoRequest, resp |-> NoResponse]

InitInFlight ==
  /\ perks = SeedDb.perks
  /\ nextId = SeedDb.nextId
  /\ req = NoRequest
  /\ resp = NoResponse
  /\ slots = [s \in Slots |-> IdleSlot]

\* The handler runs up to its await, or to its response if it makes no call.
Arrive(s, r) ==
  LET c == Call(r)
  IN /\ slots[s].pc = "idle"
     /\ r.fault => ~c.respond
     /\ slots' = [slots EXCEPT ![s] =
                    [call |-> c.call, out |-> NoOutcome,
                     pc |-> IF c.respond THEN "done" ELSE "awaiting",
                     r |-> r, resp |-> c.resp]]
     /\ UNCHANGED <<perks, nextId, req, resp>>

\* The store executes the awaited call.
Persist(s) ==
  LET out == Execute(Db, slots[s].call, slots[s].r.fault)
  IN /\ slots[s].pc = "awaiting"
     /\ perks' = out.db.perks
     /\ nextId' = out.db.nextId
     /\ slots' = [slots EXCEPT ![s].out = [out EXCEPT !.db = Empty], ![s].pc = "resolved"]
     /\ UNCHANGED <<req, resp>>

\* The handler resumes after its await and responds.
Settle(s) ==
  /\ slots[s].pc = "resolved"
  /\ slots' = [slots EXCEPT ![s].resp = Resume(slots[s].r, slots[s].out), ![s].pc = "done"]
  /\ UNCHANGED <<perks, nextId, req, resp>>

NextInFlight ==
  \/ \E s \in Slots, r \in InFlightRequests : Arrive(s, r)
  \/ \E s \in Slots : Persist(s)
  \/ \E s \in Slots : Settle(s)

SpecInFlight == InitInFlight /\ [][NextInFlight]_vars

-----------------------------------------------------------------------------
(* Vocabulary of the properties, stated from the contract and not from the *)
(* validators above.                                                       *)

EnumCategories == {"food", "tech", "travel", "fitness", "other"}

FieldNames == {"title", "description", "category", "discountPercent", "merchant"}

FieldFault(b) ==
  \/ \E k \in DOMAIN b : k \notin FieldNames
  \/ ("title" \in DOMAIN b /\ Len(b.title) < 2)
  \/ ("category" \in DOMAIN b /\ b.category \notin EnumCategories)
  \/ ("discountPercent" \in DOMAIN b /\ (b.discountPercent < 0 \/ b.discountPercent > 100))

InvalidCreate(b) == "title" \notin DOMAIN b \/ FieldFault(b)

InvalidUpdate(b) == DOMAIN b = {} \/ FieldFault(b)

\* A step that serves request kind k.
Serves(k) == req = NoRequest /\ req'.kind = k

Stored(id) == \E d \in perks : d._id = id

\* The stored perks that hold the merchant of body b (absent matches absent).
SameMerchant(b) ==
  {d \in perks : IF "merchant" \in DOMAIN b
                   THEN "merchant" \in DOMAIN d /\ d.merchant = b.merchant
                   ELSE "merchant" \notin DOMAIN d}

-----------------------------------------------------------------------------
\* C1 as stated: every updatePerk whose id matches no stored perk is answered
\* 404, whether or not the body passes the update schema (the persistence
\* call, if made, not failing).
C1_AsStated ==
  [][(Serves("update") /\ ~req'.fault /\ ~Stored(req'.id)) => resp'.status = 404]_vars

\* C1 amended: an updatePerk whose id matches no stored perk is answered 404
\* when its body passes the update schema and 400 when it does not; either
\* way the store is unchanged.
C1_UpdateMissingId ==
  [][(Serves("update") /\ ~req'.fault /\ ~Stored(req'.id)) =>
        /\ resp'.status = (IF InvalidUpdate(req'.body) THEN 400 ELSE 404)
        /\ "message" \in DOMAIN resp'.json
        /\ perks' = perks]_vars

C1_Witness ==
  /\ req.kind = "update" /\ ~InvalidUpdate(req.body)
  /\ resp.status = 404 /\ perks # {}

\* C2: a create or update payload that fails its schema is answered 400 with
\* a message, no persistence call is made and the store is unchanged.
C2_InvalidRejected ==
  [][((Serves("create") /\ InvalidCreate(req'.body)) \/
      (Serves("update") /\ InvalidUpdate(req'.body))) =>
        /\ resp'.status = 400
        /\ "message" \in DOMAIN resp'.json
        /\ resp'.calls = 0
        /\ resp'.nexts = <<>>
        /\ perks' = perks /\ nextId' = nextId]_vars

C2_Witness ==
  /\ req.kind = "update" /\ req.body = Empty /\ Stored(req.id)
  /\ resp.status = 400 /\ resp.calls = 0

\* C3: a create whose merchant value a stored perk already holds is answered
\* 409 with the duplicate-perk message and leaves the store unchanged, one
\* whose merchant value is new is answered 201, and either way the store then
\* holds exactly one perk for that merchant.
C3_DuplicateMerchant ==
  [][(Serves("create") /\ ~InvalidCreate(req'.body) /\ ~req'.fault
        /\ "merchant" \in DOMAIN req'.body) =>
        /\ SameMerchant(req'.body) = {} => resp'.status = 201
        /\ SameMerchant(req'.body) # {} =>
             /\ resp'.status = 409
             /\ resp'.json = [message |-> "Duplicate perk for this merchant"]
             /\ perks' = perks
        /\ Cardinality({d \in perks' : "merchant" \in DOMAIN d
                                        /\ d.merchant = req'.body.merchant}) = 1]_vars

C3_Witness ==
  /\ req.kind = "create" /\ "merchant" \in DOMAIN req.body
  /\ resp.status = 409
  /\ Cardinality({d \in perks : "merchant" \in DOMAIN d /\ d.merchant = req.body.merchant}) = 1

\* C4: every stored perk has discountPercent in [0,100] and category in the
\* enumeration, whatever requests were served.
C4_StoredInRange ==
  \A d \in perks :
    /\ "discountPercent" \in DOMAIN d /\ d.discountPercent >= 0 /\ d.discountPercent <= 100
    /\ "category" \in DOMAIN d /\ d.category \in EnumCategories

C4_Witness ==
  /\ req.kind = "update" /\ resp.status = 200
  /\ {"category", "discountPercent"} \subseteq DOMAIN req.body
  /\ \E d \in perks : d._id = req.id /\ d.discountPercent = 100 /\ d.category = "food"

\* C5: a successful updatePerk changes, in the identified perk only, exactly
\* the fields of the body to the submitted values; absent fields keep their
\* value (no default is applied), the id is kept, every other perk is
\* unchanged and the 200 response carries the updated perk.
C5_PartialMerge ==
  [][(Serves("update") /\ resp'.status = 200) =>
        /\ Stored(req'.id)
        /\ LET old == CHOOSE d \in perks : d._id = req'.id
               new == resp'.json.perk
           IN /\ new._id = old._id
              /\ DOMAIN new = DOMAIN old \cup DOMAIN req'.body
              /\ \A k \in DOMAIN req'.body : new[k] = req'.body[k]
              /\ \A k \in DOMAIN old \ DOMAIN req'.body : new[k] = old[k]
              /\ perks' = (perks \ {old}) \cup {new}]_vars

C5_Witness ==
  /\ req.kind = "update" /\ DOMAIN req.body = {"discountPercent"}
  /\ resp.status = 200
  /\ resp.json.perk.category = "food" /\ "merchant" \in DOMAIN resp.json.perk
  /\ Cardinality(perks) = 2

\* An id the store handed out and no longer holds. Ids are never handed out
\* twice and only deletePerk removes a perk, so these are the deleted ids.
Deleted(id) == id \in 1..nextId /\ ~Stored(id)

\* C6: deletePerk of a stored id is answered 200 {ok: true} and removes
\* exactly that perk; from then on the id stays absent, and every deletePerk,
\* getPerk or valid updatePerk for it is answered 404 and leaves the store
\* unchanged.
C6_DeleteTwice ==
  [][/\ (Serves("delete") /\ ~req'.fault /\ Stored(req'.id)) =>
          /\ resp'.status = 200
          /\ resp'.json = [ok |-> TRUE]
          /\ perks' = {d \in perks : d._id # req'.id}
          /\ Cardinality(perks') = Cardinality(perks) - 1
     /\ \A id \in Ids : Deleted(id) => Deleted(id)'
     /\ ((Serves("delete") \/ Serves("get")
            \/ (Serves("update") /\ ~InvalidUpdate(req'.body)))
          /\ ~req'.fault /\ Deleted(req'.id)) =>
          /\ resp'.status = 404
          /\ perks' = perks]_vars

C6_Witness ==
  /\ req.kind = "delete" /\ Deleted(req.id)
  /\ resp.status = 404 /\ perks # {}

RECURSIVE NewestFirst(_)
NewestFirst(list) ==
  Len(list) <= 1 \/ (list[1].createdAt >= list[2].createdAt /\ NewestFirst(Tail(list)))

Elements(list) == {list[i] : i \in 1..Len(list)}

\* C7 as stated: filterPerks answers 400 exactly when the title parameter is
\* absent, and 200 whenever it is present.
C7_AsStated ==
  [][(Serves("filter") /\ ~req'.fault) =>
        (resp'.status = 400 <=> "title" \notin DOMAIN req'.query)]_vars

\* C7 amended: filterPerks answers 400 exactly when the title parameter is
\* absent or the empty string; for every non-empty title it answers 200 with
\* exactly the stored perks whose title equals it, newest first, each once;
\* it never modifies the store.
C7_FilterByTitle ==
  [][Serves("filter") =>
        /\ perks' = perks /\ nextId' = nextId
        /\ ~req'.fault =>
             IF "title" \notin DOMAIN req'.query \/ req'.query.title = ""
               THEN resp'.status = 400 /\ "message" \in DOMAIN resp'.json
               ELSE /\ resp'.status = 200
                    /\ Elements(resp'.json.perks) = {d \in perks : d.title = req'.query.title}
                    /\ Len(resp'.json.perks) = Cardinality(Elements(resp'.json.perks))
                    /\ NewestFirst(resp'.json.perks)]_vars

C7_Witness ==
  /\ req.kind = "filter" /\ resp.status = 200
  /\ Len(resp.json.perks) = 2
  /\ resp.json.perks[1].createdAt > resp.json.perks[2].createdAt

\* C8: a valid create whose merchant no stored perk holds is answered 201
\* with the created perk; the store gains exactly that perk, which has the
\* submitted fields, category "other" and discountPercent 0 where omitted,
\* and an id no stored perk has; the perks stored before are unchanged.
C8_CreateStores ==
  [][(Serves("create") /\ ~InvalidCreate(req'.body) /\ ~req'.fault
        /\ SameMerchant(req'.body) = {}) =>
        /\ resp'.status = 201
        /\ "perk" \in DOMAIN resp'.json
        /\ LET new == resp'.json.perk
               b == req'.body
           IN /\ new \notin perks
              /\ perks' = perks \cup {new}
              /\ \A d \in perks : d._id # new._id
              /\ DOMAIN new \ {"_id", "createdAt"} =
                   DOMAIN b \cup {"category", "discountPercent"}
              /\ \A k \in DOMAIN b : new[k] = b[k]
              /\ new.category = (IF "category" \in DOMAIN b THEN b.category ELSE "other")
              /\ new.discountPercent =
                   (IF "discountPercent" \in DOMAIN b THEN b.discountPercent ELSE 0)]_vars

C8_Witness ==
  /\ req.kind = "create" /\ resp.status = 201
  /\ DOMAIN req.body = {"title", "merchant"}
  /\ resp.json.perk.category = "other" /\ resp.json.perk.discountPercent = 0
  /\ Cardinality(perks) = 2

\* C9: a persistence failure other than a duplicate key on create is handed
\* to next(err) exactly once and the handler sends nothing; so is the
\* duplicate-key error of an updatePerk that sets merchant to a value another
\* perk holds (no 409), and the store keeps one perk per merchant.
C9_ErrorsForwarded ==
  [][(req = NoRequest /\ req' # NoRequest) =>
        /\ req'.fault =>
             /\ Len(resp'.nexts) = 1 /\ resp'.nexts[1] # 11000
             /\ resp'.status = 0 /\ resp'.json = Empty
             /\ perks' = perks
        /\ (req'.kind = "update" /\ ~InvalidUpdate(req'.body) /\ ~req'.fault
              /\ Stored(req'.id) /\ "merchant" \in DOMAIN req'.body
              /\ \E d \in perks : d._id # req'.id /\ d \in SameMerchant(req'.body)) =>
             /\ resp'.nexts = <<11000>>
             /\ resp'.status = 0 /\ resp'.json = Empty
             /\ perks' = perks
        /\ \A d, e \in perks' :
             ("merchant" \in DOMAIN d /\ "merchant" \in DOMAIN e /\ d.merchant = e.merchant)
               => d = e]_vars

C9_Witness ==
  /\ req.kind = "update" /\ resp.nexts = <<11000>> /\ resp.status = 0
  /\ Cardinality(perks) = 2

\* The responses and the store after serving the requests of the slots one
\* at a time in the order given, each handler run whole.
RECURSIVE Sequentially(_, _, _)
Sequentially(db, order, i) ==
  IF i > Len(order) THEN [db |-> db, resps |-> <<>>]
  ELSE LET h == Handle(db, slots[order[i]].r)
           rest == Sequentially(h.db, order, i + 1)
       IN [db |-> rest.db, resps |-> <<h.resp>> \o rest.resps]

Orders == {o \in [Slots -> Slots] : \A s \in Slots : \E i \in Slots : o[i] = s}

AllDone == \A s \in Slots : slots[s].pc = "done"

Serializable ==
  \E o \in Orders :
    LET run == Sequentially(SeedDb, o, 1)
    IN /\ run.db = Db
       /\ \A i \in Slots : run.resps[i] = slots[o[i]].resp

\* The invocations that ran request kind k without a persistence fault.
Ran(k) == {s \in Slots : slots[s].r.kind = k /\ ~slots[s].r.fault}

Answered(S, status) == {s \in S : slots[s].resp.status = status}

ValidCreates == {s \in Ran("create") : ~InvalidCreate(slots[s].r.body)}

\* C10: every handler makes at most one persistence call, and however the
\* in-flight requests interleave at their awaits, once all are answered the
\* responses and the store are those of serving them one at a time in some
\* order. Concurrent deletes of one stored id: exactly one 200, the others
\* 404. Concurrent creates with one merchant, nothing else in flight: exactly
\* one 201, the others 409, one perk for the merchant. An update whose
\* persistence call runs after a delete of its id was answered 200 finds
\* nothing, leaves the store unchanged and is answered 404.
C10_Interleavings ==
  /\ [](/\ \A s \in Slots : slots[s].resp.calls <= 1
        /\ AllDone =>
             /\ Serializable
             /\ Ran("delete") # {} =>
                  /\ Cardinality(Answered(Ran("delete"), 200)) = 1
                  /\ Answered(Ran("delete"), 404) = Ran("delete") \ Answered(Ran("delete"), 200)
                  /\ ~Stored(SeedId)
             /\ (ValidCreates = Slots /\ \A s \in Slots : slots[s].r.body.merchant = "acme") =>
                  /\ Cardinality(Answered(Slots, 201)) = 1
                  /\ Answered(Slots, 409) = Slots \ Answered(Slots, 201)
                  /\ Cardinality({d \in perks : "merchant" \in DOMAIN d
                                                 /\ d.merchant = "acme"}) = 1)
  /\ [][\A u \in Slots :
          /\ (/\ slots[u].pc = "awaiting" /\ slots'[u].pc = "resolved"
              /\ slots[u].r.kind = "update" /\ ~slots[u].r.fault
              /\ \E d \in Answered(Ran("delete"), 200) : slots[d].r.id = slots[u].r.id) =>
                /\ perks' = perks
                /\ slots'[u].out.doc = Null /\ ~slots'[u].out.threw
          /\ (/\ slots[u].pc = "resolved" /\ slots'[u].pc = "done"
              /\ slots[u].r.kind = "update"
              /\ slots[u].out.doc = Null /\ ~slots[u].out.threw) =>
                slots'[u].resp.status = 404]_vars

C10_Witness ==
  /\ AllDone
  /\ \E d, u \in Slots :
       /\ slots[d].r.kind = "delete" /\ slots[d].resp.status = 200
       /\ slots[u].r.kind = "update" /\ slots[u].resp.status = 404
  /\ perks = {}

====
